---- MODULE Spec2Model ----
(***************************************************************************)
(* A model of the in-memory directory / file-context core of the drive:    *)
(* one Directory (directory.cc), the FileContexts it owns                  *)
(* (file_context.cc), the Drive routines that open, release, write and     *)
(* flush them (drive.h), and the asio timers and handler queue they use.   *)
(*                                                                         *)
(* A boost::asio::steady_timer is modelled by the number of waits pending  *)
(* on it (0 or 1).  expires_from_now() and cancel() turn every pending     *)
(* wait into a queued handler that will be called with operation_aborted   *)
(* and return how many they turned; expiry turns the pending wait into a   *)
(* queued handler that will be called without error.  A queued handler can *)
(* no longer be cancelled.  The executor runs queued handlers in any       *)
(* order.                                                                  *)
(***************************************************************************)
EXTENDS Integers, Sequences, FiniteSets, TLC

\* ------------------------------------------------------------------ bounds
NumNames == 3       \* file names are 1..NumNames, ordered as the paths are
MaxFiles == 2       \* FileContext objects alive at once
MaxOpen == 2        \* cap on open_count
MaxInFlight == 1    \* driver threads inside Open or Release of one file
MaxQueue == 1       \* cap on queued handlers of one kind
MaxHistory == 3     \* cap on the length of versions_
kMaxVersions == 2   \* stands for kMaxVersions of config.h, which is larger
OffsetBits == 4     \* stands for the 64 bits of uint64_t and off_t
SizeBits == 2       \* stands for the 32 bits of uint32_t

\* ------------------------------------------------------------ input values
\* Tags telling an encryptor instance from the one constructed in its place.
Instances == {1, 2}
\* Version ids (content hashes of serialised directories).
VersionIds == {1}
\* Directory ids.
DirectoryIds == {1, 2}
\* Indices of the oldest version a Directory may be constructed with.
FirstIndices == {0, 1}
\* Parent ids, and the one a Directory is constructed with.
ParentIds == {1, 2}
InitialParentIds == {1}
\* Put functors, and the one a Directory is constructed with.
PutFunctors == {1, 2}
InitialPutFunctors == {1}

\* asio_service_(2): the executor's worker threads.
kThreads == 2

Names == 1..NumNames
Ids == 1..MaxFiles

\* The values of a uint64_t offset, of a uint32_t size and of a non-negative
\* off_t file size.
Offsets == 0..(2^OffsetBits - 1)
IoSizes == 0..(2^SizeBits - 1)
FileSizes == 0..(2^(OffsetBits - 1) - 1)
\* The st_size of the files a Directory is reconstructed with.
ParsedSizes == {0, 1}

VARIABLES
  directory_id_,             \* Directory::directory_id_
  max_versions_,             \* Directory::max_versions_
  children_,                 \* Directory::children_: sequence of FileContext ids
  children_count_position_,  \* Directory::children_count_position_
  store_state_,              \* Directory::store_state_
  timer_,                    \* waits pending on Directory::timer_
  store_queue,               \* queued store handlers: [ok, aborted]
  puts,                      \* store attempts between Serialise and AddNewVersion
  versions_,                 \* Directory::versions_, newest first
  initial_versions,          \* the versions the Directory was constructed with
  fc,                        \* the FileContext objects, by id
  tdq,                       \* queued teardown handlers per FileContext id
  dtor,                      \* "none", "waiting" (in ~Directory's wait), "done"
  ub,                        \* undefined behaviour reached, or "none"
  hist,                      \* what the last step returned or observed
  script,                    \* a driver's run of opens then releases on a file
  parent_id_,                \* Directory::parent_id_
  store_functor_,            \* the put_functor that store_functor_ is bound to
  set_new_parent             \* the call of SetNewParent in progress, if any

vars == <<directory_id_, max_versions_, children_, children_count_position_,
          store_state_, timer_, store_queue, puts, versions_, initial_versions,
          fc, tdq, dtor, ub, hist, script, parent_id_, store_functor_,
          set_new_parent>>

\* What no step of the Directory, of the Drive routines or of the executor
\* writes.
dirVars == <<directory_id_, max_versions_, initial_versions, script,
             parent_id_, store_functor_, set_new_parent>>

\* ------------------------------------------------------------ FileContext

\* FileContext::FileContext(): the moved-from / absent object.  Next to the
\* members: the threads that are between the two parts of Open (opening) and
\* of Release (releasing), the opens that have returned to the driver and
\* that it has not released yet (handles), the threads that are inside a
\* call of the encryptor made without the parent's mutex (inside), and
\* whether the encryptor was used by another thread during such a call
\* (raced).
Blank ==
  [name |-> 0, is_directory |-> FALSE, st_size |-> 0, self_encryptor |-> 0,
   dirty |-> FALSE, timer |-> FALSE, armed |-> 0, open_count |-> 0,
   parent |-> 0, flushed |-> FALSE, opening |-> 0, releasing |-> 0,
   handles |-> 0, inside |-> 0, raced |-> FALSE]

\* FileContext(const path& name, bool is_directory): no parent yet.
FileContextNamed(name, is_directory) ==
  [Blank EXCEPT !.name = name, !.is_directory = is_directory]

\* FileContextFromMetaData that reads the name only.
FileContextFromNameOnly(meta, parent_in) ==
  [Blank EXCEPT !.name = meta.name, !.parent = parent_in]

\* FileContext(MetaData meta_data_in, Directory* parent_in).
FileContextFromMetaData(meta, parent_in) ==
  [Blank EXCEPT !.name = meta.name, !.is_directory = meta.is_directory,
                !.st_size = meta.st_size, !.parent = parent_in]

EmptyTdq == [ok |-> 0, stale |-> 0, aborted |-> 0]

\* The tag of an encryptor constructed in place of the one c holds.
FreshInstance(c) == CHOOSE i \in Instances : i # c.self_encryptor

\* InitialiseEncryptor without the early return: the pending teardown is
\* cancelled, but a fresh encryptor is constructed all the same.
InitialiseEncryptorAlwaysFresh(c) ==
  [ctx |-> [c EXCEPT !.timer = TRUE, !.armed = 0,
                     !.self_encryptor = FreshInstance(c), !.dirty = FALSE],
   cancelled |-> IF c.timer THEN c.armed ELSE 0]

\* Drive::InitialiseEncryptor: the context afterwards, and how many teardown
\* waits the cancel() turned into aborted handlers.
InitialiseEncryptor(c) ==
  IF ~c.timer
    THEN [ctx |-> [c EXCEPT !.timer = TRUE,
                            !.self_encryptor = FreshInstance(c),
                            !.dirty = FALSE],
          cancelled |-> 0]
    ELSE IF c.armed > 0
      THEN [ctx |-> [c EXCEPT !.armed = 0], cancelled |-> c.armed]
      ELSE [ctx |-> [c EXCEPT !.self_encryptor = FreshInstance(c),
                              !.dirty = FALSE],
            cancelled |-> 0]

\* Drive::ScheduleDeletionOfEncryptor: expires_from_now() then async_wait().
ScheduleDeletionOfEncryptor(c) ==
  [ctx |-> [c EXCEPT !.armed = 1], cancelled |-> c.armed]

\* FlushEncryptor that resets the encryptor whatever the open count is.
FlushEncryptorAlwaysResets(c) ==
  [c EXCEPT !.dirty = FALSE,
            !.self_encryptor = 0,
            !.flushed = TRUE,
            !.raced = c.raced \/ c.inside > 0]

\* FlushEncryptor that tests the counter: it resets the encryptor of a file
\* whose open count is 0.
FlushEncryptorResetsWhenClosed(c) ==
  [c EXCEPT !.dirty = FALSE,
            !.self_encryptor = IF c.open_count = 0 THEN 0 ELSE c.self_encryptor,
            !.flushed = TRUE,
            !.raced = c.raced \/ c.inside > 0]

\* FlushEncryptor (unnamed namespace of directory.cc).  open_count is a
\* std::unique_ptr<std::atomic<int>> (file_context.h), and the test
\* `file_context->open_count == 0` is written without the dereference that
\* every other test of the count has: it compares the pointer with the null
\* pointer constant.  Every constructor allocates the counter, so the test is
\* false for every child of a Directory and self_encryptor.reset() is never
\* reached: the encryptor is flushed and kept.
FlushEncryptor(c) ==
  [c EXCEPT !.dirty = FALSE,
            !.flushed = TRUE,
            !.raced = c.raced \/ c.inside > 0]

\* Directory::FlushChildAndDeleteEncryptor.
FlushChildAndDeleteEncryptor(c) ==
  IF c.self_encryptor # 0 THEN FlushEncryptor(c) ELSE c

\* The body of Serialise's loop for one child, after its meta data was written.
SerialiseChild(c) ==
  IF c.self_encryptor # 0
    THEN [ctx |-> [FlushEncryptor([c EXCEPT !.armed = 0]) EXCEPT !.flushed = FALSE],
          cancelled |-> c.armed]
    ELSE [ctx |-> c, cancelled |-> 0]

\* FileContext::~FileContext: how many waits its cancel() aborts.
DestroyCancelled(c) == IF c.timer THEN c.armed ELSE 0

\* ~FileContext that cancels the timer and does not call the parent.
DestroyFileContextNoFlush(c) ==
  [ctx |-> [c EXCEPT !.armed = 0], cancelled |-> DestroyCancelled(c),
   parent_calls |-> 0]

\* FileContext::~FileContext: with a timer, cancel() and then
\* parent->FlushChildAndDeleteEncryptor(this); without one, nothing.  ctx is
\* the object as the destructor's body leaves it.
DestroyFileContext(c) ==
  IF c.timer
    THEN [ctx |-> FlushChildAndDeleteEncryptor([c EXCEPT !.armed = 0]),
          cancelled |-> DestroyCancelled(c), parent_calls |-> 1]
    ELSE [ctx |-> c, cancelled |-> 0, parent_calls |-> 0]

\* The teardown handlers queued for an object that is destroyed: those not yet
\* run keep the pointer to it.
TdqAfterDestroy(q, c) ==
  [ok |-> 0, stale |-> q.stale + q.ok, aborted |-> q.aborted + DestroyCancelled(c)]

\* ------------------------------------------------------------- children_

Range(s) == {s[i] : i \in 1..Len(s)}

NameOf(ctx, id) == ctx[id].name

NamesOf(seq, ctx) == [i \in 1..Len(seq) |-> ctx[seq[i]].name]

\* Find that never finds a child.
FindNothing(seq, ctx, name) == 0

\* Find that returns the first child where it should return the end.
FindOrFirst(seq, ctx, name) ==
  IF \E i \in 1..Len(seq) : NameOf(ctx, seq[i]) = name
    THEN CHOOSE i \in 1..Len(seq) : NameOf(ctx, seq[i]) = name
    ELSE IF Len(seq) > 0 THEN 1 ELSE 0

\* Directory::Find: the position of the child called name, 0 for end().
Find(seq, ctx, name) ==
  IF \E i \in 1..Len(seq) : ctx[seq[i]].name = name
    THEN CHOOSE i \in 1..Len(seq) :
           /\ ctx[seq[i]].name = name
           /\ \A j \in 1..(i - 1) : ctx[seq[j]].name # name
    ELSE 0

RECURSIVE InsertSorted(_, _, _)
InsertSorted(seq, ctx, id) ==
  IF seq = <<>> THEN <<id>>
  ELSE IF ctx[id].name < ctx[Head(seq)].name THEN <<id>> \o seq
  ELSE <<Head(seq)>> \o InsertSorted(Tail(seq), ctx, id)

\* A sort that leaves the sequence as it is.
SortByNameNoSort(seq, ctx) == seq

RECURSIVE SortByName(_, _)
\* std::sort of children_ by operator< (meta_data.name).
SortByName(seq, ctx) ==
  IF seq = <<>> THEN <<>>
  ELSE InsertSorted(SortByName(Tail(seq), ctx), ctx, Head(seq))

\* children_.erase(itr).
Erase(seq, i) == SubSeq(seq, 1, i - 1) \o SubSeq(seq, i + 1, Len(seq))

IsSorted(names) == \A i \in 1..(Len(names) - 1) : names[i] < names[i + 1]

\* ------------------------------------------------------- history records

\* What a step leaves in hist: the call, the FileContext it was about, a
\* number it saw and the value it returned.
Hist(op, id, n, ret) == [op |-> op, id |-> id, n |-> n, ret |-> ret, err |-> ""]

\* A call that threw err.
Failed(op, err) == [op |-> op, id |-> 0, n |-> 0, ret |-> <<>>, err |-> err]

\* A step that returns nothing.
Void == Hist("", 0, 0, <<>>)

\* A call that changed the directory and scheduled it for storing.
Mutation == Hist("mutation", 0, 0, <<>>)

\* StructuredDataVersions::VersionName(): the empty version name.
EmptyVersionName == [index |-> 0, id |-> 0]

VersionName(index, id) == [index |-> index, id |-> id]

EmptyStoreQueue == [ok |-> 0, aborted |-> 0]

Room(n, more) == n + more <= MaxQueue

Alive == dtor.pc = "none" /\ ub = "none"

Running == ub = "none"

\* --------------------------------------------------- deferred store timer

\* DoScheduleForStoring whose expires_from_now() cancels nothing: the earlier
\* wait stays pending next to the new one.
DoScheduleForStoringNoCancel(use_delay) ==
  IF use_delay
    THEN /\ timer_' = timer_ + 1
         /\ store_queue' = store_queue
         /\ store_state_' = "Pending"
    ELSE IF store_state_ = "Pending"
      THEN /\ timer_' = 0
           /\ store_queue' =
                IF timer_ > 0
                  THEN [store_queue EXCEPT !.aborted = @ + timer_, !.ok = @ + 1]
                  ELSE store_queue
           /\ store_state_' = "Pending"
      ELSE UNCHANGED <<timer_, store_queue, store_state_>>

\* DoScheduleForStoring that posts the functor whether or not a wait was
\* cancelled.
DoScheduleForStoringAlwaysPosts(use_delay) ==
  IF use_delay
    THEN /\ timer_' = 1
         /\ store_queue' =
              [store_queue EXCEPT !.aborted = @ + timer_]
         /\ store_state_' = "Pending"
    ELSE IF store_state_ = "Pending"
      THEN /\ timer_' = 0
           /\ store_queue' =
                [store_queue EXCEPT !.aborted = @ + timer_, !.ok = @ + 1]
           /\ store_state_' = "Pending"
      ELSE UNCHANGED <<timer_, store_queue, store_state_>>

\* DoScheduleForStoring that cancels the wait and posts nothing.
DoScheduleForStoringCancelOnly(use_delay) ==
  IF use_delay
    THEN /\ timer_' = 1
         /\ store_queue' =
              [store_queue EXCEPT !.aborted = @ + timer_]
         /\ store_state_' = "Pending"
    ELSE IF store_state_ = "Pending"
      THEN /\ timer_' = 0
           /\ store_queue' = [store_queue EXCEPT !.aborted = @ + timer_]
           /\ store_state_' = "Pending"
      ELSE UNCHANGED <<timer_, store_queue, store_state_>>

\* Directory::DoScheduleForStoring.  With use_delay, expires_from_now() turns
\* the pending wait (if any) into an aborted handler and async_wait() arms a
\* new one.  Without use_delay, and only in state kPending, a pending wait is
\* cancelled and, if one was cancelled, the functor is posted.
DoScheduleForStoring(use_delay) ==
  IF use_delay
    THEN /\ timer_' = 1
         /\ store_queue' =
              [store_queue EXCEPT !.aborted = @ + timer_]
         /\ store_state_' = "Pending"
    ELSE IF store_state_ = "Pending"
      THEN /\ timer_' = 0
           /\ store_queue' =
                IF timer_ > 0
                  THEN [store_queue EXCEPT !.aborted = @ + timer_, !.ok = @ + 1]
                  ELSE store_queue
           /\ store_state_' = "Pending"
      ELSE UNCHANGED <<timer_, store_queue, store_state_>>

\* Room in the handler queue for what DoScheduleForStoring(TRUE) will queue.
ScheduleRoom == Room(store_queue.aborted, timer_)

\* Room for what DoScheduleForStoring(FALSE) will queue.
PostRoom ==
  store_state_ = "Pending" /\ timer_ > 0 =>
    Room(store_queue.aborted, timer_) /\ Room(store_queue.ok, 1)

\* SortAndResetChildrenCounter that sorts and leaves the cursor where it is.
SortAndKeepChildrenCounter(seq, ctx) ==
  /\ children_' = SortByName(seq, ctx)
  /\ UNCHANGED children_count_position_

\* Directory::SortAndResetChildrenCounter, on the children and contexts that
\* the caller has just built.
SortAndResetChildrenCounter(seq, ctx) ==
  /\ children_' = SortByName(seq, ctx)
  /\ children_count_position_' = 0

\* --------------------------------------------------------------- Directory

FreeIds == {i \in Ids : i \notin Range(children_) /\ tdq[i] = EmptyTdq}

\* Directory::AddChild of the context child, which the caller built.
AddChild(child) ==
  IF Find(children_, fc, child.name) # 0
    THEN /\ hist' = Failed("AddChild", "file_exists")
         /\ UNCHANGED <<dirVars, children_, children_count_position_,
                        store_state_, timer_, store_queue, puts, versions_, fc,
                        tdq, dtor, ub>>
    ELSE /\ FreeIds # {}
         /\ ScheduleRoom
         /\ LET id == CHOOSE i \in FreeIds : \A j \in FreeIds : i <= j
                ctx == [fc EXCEPT ![id] = [child EXCEPT !.parent = 1]]
            IN  /\ fc' = ctx
                /\ SortAndResetChildrenCounter(Append(children_, id), ctx)
                /\ hist' = Mutation
         /\ DoScheduleForStoring(TRUE)
         /\ UNCHANGED <<dirVars, puts, versions_, tdq, dtor, ub>>

\* Drive::Create that leaves the open_count of a new file at 0.
CreateNotCounted(name, is_directory) ==
  /\ Alive
  /\ LET c == FileContextNamed(name, is_directory)
     IN  AddChild(IF is_directory
                    THEN c
                    ELSE [InitialiseEncryptor(c).ctx EXCEPT !.handles = 1])

\* Drive::Create: a new file gets its encryptor and open_count 1 before it is
\* added to its parent; a new directory entry is added as it is.
Create(name, is_directory) ==
  /\ Alive
  /\ LET c == FileContextNamed(name, is_directory)
     IN  AddChild(IF is_directory
                    THEN c
                    ELSE [InitialiseEncryptor(c).ctx EXCEPT !.open_count = 1,
                                                            !.handles = 1])

\* Directory::RemoveChild, and the destruction of the FileContext it returns
\* (Drive::Delete).
RemoveChild(name) ==
  /\ Alive
  /\ LET i == Find(children_, fc, name)
     IN  IF i = 0
           THEN /\ hist' = Failed("RemoveChild", "no_such_file")
                /\ UNCHANGED <<dirVars, children_, children_count_position_,
                               store_state_, timer_, store_queue, puts,
                               versions_, fc, tdq, dtor, ub>>
           ELSE LET id == children_[i]
                    ctx == [fc EXCEPT ![id] = Blank]
                IN  /\ fc[id].opening = 0 /\ fc[id].releasing = 0
                    /\ ScheduleRoom
                    /\ Room(tdq[id].aborted, DestroyCancelled(fc[id]))
                    /\ Room(tdq[id].stale, tdq[id].ok)
                    /\ fc' = ctx
                    /\ tdq' = [tdq EXCEPT ![id] = TdqAfterDestroy(tdq[id], fc[id])]
                    /\ SortAndResetChildrenCounter(Erase(children_, i), ctx)
                    /\ hist' = IF fc[id].timer
                                 THEN Hist("~FileContext", id,
                                           DestroyFileContext(fc[id]).parent_calls,
                                           DestroyFileContext(fc[id]).ctx)
                                 ELSE Mutation
                    /\ DoScheduleForStoring(TRUE)
                    /\ UNCHANGED <<dirVars, puts, versions_, dtor, ub>>

\* Directory::RenameChild; the caller guarantees that new_name is unused.
RenameChild(old_name, new_name) ==
  /\ Alive
  /\ Find(children_, fc, new_name) = 0
  /\ LET i == Find(children_, fc, old_name)
     IN  IF i = 0
           THEN /\ hist' = Failed("RenameChild", "no_such_file")
                /\ UNCHANGED <<dirVars, children_, children_count_position_,
                               store_state_, timer_, store_queue, puts,
                               versions_, fc, tdq, dtor, ub>>
           ELSE LET id == children_[i]
                    ctx == [fc EXCEPT ![id].name = new_name]
                IN  /\ ScheduleRoom
                    /\ fc' = ctx
                    /\ SortAndResetChildrenCounter(children_, ctx)
                    /\ hist' = Mutation
                    /\ DoScheduleForStoring(TRUE)
                    /\ UNCHANGED <<dirVars, puts, versions_, tdq, dtor, ub>>

\* The assertion that GetChild and GetMutableChild make about the child they
\* found.
ChildAsserted(c) ==
  \/ c.open_count = 0
  \/ c.open_count > 0 /\ (c.is_directory \/ (c.self_encryptor # 0 /\ c.timer))

\* The body that GetChild and GetMutableChild share: Find under the mutex,
\* no_such_file at the end of children_, else the assertion and the pointer.
\* A failed assertion stops a build that has assertions and is skipped by a
\* build with NDEBUG.
Lookup(op, name) ==
  /\ Alive
  /\ LET i == Find(children_, fc, name)
     IN  IF i = 0
           THEN /\ hist' = Failed(op, "no_such_file")
                /\ UNCHANGED ub
           ELSE IF ChildAsserted(fc[children_[i]])
             THEN /\ hist' = Hist(op, children_[i], 0, <<>>)
                  /\ UNCHANGED ub
             ELSE \/ /\ ub' = "assertion_failed"
                     /\ hist' = Void
                  \/ /\ hist' = Hist(op, children_[i], 0, <<>>)
                     /\ UNCHANGED ub
  /\ UNCHANGED <<dirVars, children_, children_count_position_, store_state_,
                 timer_, store_queue, puts, versions_, fc, tdq, dtor>>

\* Directory::GetChild.
GetChild(name) == Lookup("GetChild", name)

\* Directory::GetMutableChild.
GetMutableChild(name) == Lookup("GetMutableChild", name)

\* Directory::GetChildAndIncrementCounter.
GetChildAndIncrementCounter ==
  /\ Alive
  /\ IF children_count_position_ < Len(children_)
       THEN /\ children_count_position_' = children_count_position_ + 1
            /\ hist' = Hist("GetChildAndIncrementCounter",
                            children_[children_count_position_ + 1], 0, <<>>)
       ELSE /\ hist' = Hist("GetChildAndIncrementCounter", 0, 0, <<>>)
            /\ UNCHANGED children_count_position_
  /\ UNCHANGED <<dirVars, children_, store_state_, timer_, store_queue, puts,
                 versions_, fc, tdq, dtor, ub>>

\* Directory::ResetChildrenCounter (Drive::ReleaseDir).
ResetChildrenCounter ==
  /\ Alive
  /\ children_count_position_' = 0
  /\ hist' = Void
  /\ UNCHANGED <<dirVars, children_, store_state_, timer_, store_queue, puts,
                 versions_, fc, tdq, dtor, ub>>

\* Directory::ScheduleForStoring.
ScheduleForStoring ==
  /\ Alive
  /\ ScheduleRoom
  /\ DoScheduleForStoring(TRUE)
  /\ hist' = Mutation
  /\ UNCHANGED <<dirVars, children_, children_count_position_, puts, versions_,
                 fc, tdq, dtor, ub>>

\* Directory::StoreImmediatelyIfPending.
StoreImmediatelyIfPending ==
  /\ Alive
  /\ PostRoom
  /\ DoScheduleForStoring(FALSE)
  /\ hist' = Void
  /\ UNCHANGED <<dirVars, children_, children_count_position_, puts, versions_,
                 fc, tdq, dtor, ub>>

\* ------------------------------------------------------------------- Drive

IsFile(id) == id \in Range(children_) /\ ~fc[id].is_directory

\* Opens that have returned and have not been released yet.
HeldOpens(id) == fc[id].handles

\* Drive::Open up to and including ++open_count (GetMutableChild found the
\* child).  When the count became 1 the thread goes on to lock the parent
\* and initialise the encryptor.
OpenIncrement(id) ==
  /\ Alive
  /\ IsFile(id)
  /\ fc[id].open_count < MaxOpen
  /\ fc[id].opening + fc[id].releasing < MaxInFlight
  /\ fc' = [fc EXCEPT ![id].open_count = @ + 1,
                      ![id].opening = IF fc[id].open_count + 1 = 1 THEN @ + 1 ELSE @,
                      ![id].handles = IF fc[id].open_count + 1 = 1 THEN @ ELSE @ + 1]
  /\ hist' = Void
  /\ UNCHANGED <<dirVars, children_, children_count_position_, store_state_,
                 timer_, store_queue, puts, versions_, tdq, dtor, ub>>

\* Drive::Open, second part: InitialiseEncryptor under the parent's mutex.
OpenInitialise(id) ==
  /\ Running
  /\ dtor.pc # "done"
  /\ IsFile(id)
  /\ fc[id].opening > 0
  /\ LET r == InitialiseEncryptor(fc[id])
     IN  /\ Room(tdq[id].aborted, r.cancelled)
         /\ fc' = [fc EXCEPT ![id] = [r.ctx EXCEPT !.opening = @ - 1,
                                                   !.handles = @ + 1]]
         /\ tdq' = [tdq EXCEPT ![id].aborted = @ + r.cancelled]
         /\ hist' = Hist("OpenInitialise", id, r.cancelled, <<>>)
  /\ UNCHANGED <<dirVars, children_, children_count_position_, store_state_,
                 timer_, store_queue, puts, versions_, dtor, ub>>

\* Drive::Release up to and including --open_count.
ReleaseDecrement(id) ==
  /\ Alive
  /\ IsFile(id)
  /\ HeldOpens(id) > 0
  /\ fc[id].opening + fc[id].releasing < MaxInFlight
  /\ fc' = [fc EXCEPT ![id].open_count = @ - 1, ![id].releasing = @ + 1,
                      ![id].handles = @ - 1]
  /\ hist' = Void
  /\ UNCHANGED <<dirVars, children_, children_count_position_, store_state_,
                 timer_, store_queue, puts, versions_, tdq, dtor, ub>>

\* Drive::Release, second part: the test of open_count and, at 0,
\* ScheduleDeletionOfEncryptor.
ReleaseSchedule(id) ==
  /\ Running
  /\ dtor.pc # "done"
  /\ IsFile(id)
  /\ fc[id].releasing > 0
  /\ IF fc[id].open_count = 0
       THEN LET r == ScheduleDeletionOfEncryptor(fc[id])
            IN  /\ Room(tdq[id].aborted, r.cancelled)
                /\ fc' = [fc EXCEPT ![id] = [r.ctx EXCEPT !.releasing = @ - 1]]
                /\ tdq' = [tdq EXCEPT ![id].aborted = @ + r.cancelled]
                /\ hist' = Void
       ELSE /\ fc' = [fc EXCEPT ![id].releasing = @ - 1]
            /\ hist' = Void
            /\ UNCHANGED tdq
  /\ UNCHANGED <<dirVars, children_, children_count_position_, store_state_,
                 timer_, store_queue, puts, versions_, dtor, ub>>

\* x as a uint64_t, and as the off_t that static_cast<off_t> makes of it.
Wrap64(x) == x % (2^OffsetBits)

AsOffT(x) == IF x >= 2^(OffsetBits - 1) THEN x - 2^OffsetBits ELSE x

Max(a, b) == IF a >= b THEN a ELSE b

Min(a, b) == IF a <= b THEN a ELSE b

\* The st_size Drive::Write leaves: std::max(static_cast<off_t>(offset +
\* size), st_size), the sum being a uint64_t.
WrittenSize(st_size, size, offset) ==
  Max(AsOffT(Wrap64(offset + size)), st_size)

\* A call with its arguments and what it returned.
Call(op, id, args, ret) ==
  [op |-> op, id |-> id, n |-> 0, ret |-> ret, err |-> "", args |-> args]

\* A call on the FileContext id that threw err.
FailedOn(op, id, err) ==
  [op |-> op, id |-> id, n |-> 0, ret |-> <<>>, err |-> err]

\* Drive::Write.  ok is whether the encryptor's Write succeeds: then the bytes
\* are buffered in the encryptor, st_size is updated, the parent is scheduled
\* for storing and size is returned; otherwise the call throws unknown.
Write(id, size, offset, ok) ==
  /\ Alive
  /\ IsFile(id)
  /\ HeldOpens(id) > 0
  /\ fc[id].self_encryptor # 0
  /\ IF ok
       THEN /\ ScheduleRoom
            /\ fc' = [fc EXCEPT ![id].dirty = TRUE,
                                ![id].st_size = WrittenSize(@, size, offset)]
            /\ DoScheduleForStoring(TRUE)
            /\ hist' = Call("Write", id, <<size, offset>>, size)
       ELSE /\ hist' = FailedOn("Write", id, "unknown")
            /\ UNCHANGED <<fc, timer_, store_queue, store_state_>>
  /\ UNCHANGED <<dirVars, children_, children_count_position_, puts, versions_,
                 tdq, dtor, ub>>

\* Drive::Write taken in two steps.  First: GetMutableContext has returned,
\* so the parent's mutex is released, and the thread enters the encryptor's
\* Write.
WriteBegin(id) ==
  /\ Alive
  /\ IsFile(id)
  /\ HeldOpens(id) > 0
  /\ fc[id].self_encryptor # 0
  /\ fc[id].inside < MaxInFlight
  /\ fc' = [fc EXCEPT ![id].inside = @ + 1]
  /\ hist' = Void
  /\ UNCHANGED <<dirVars, children_, children_count_position_, store_state_,
                 timer_, store_queue, puts, versions_, tdq, dtor, ub>>

\* Second: the encryptor's Write returns and Drive::Write goes on as above.
WriteEnd(id, size, offset, ok) ==
  /\ Running
  /\ dtor.pc = "none"
  /\ IsFile(id)
  /\ fc[id].inside > 0
  /\ IF ok
       THEN /\ ScheduleRoom
            /\ fc' = [fc EXCEPT ![id].dirty = TRUE,
                                ![id].st_size = WrittenSize(@, size, offset),
                                ![id].inside = @ - 1]
            /\ DoScheduleForStoring(TRUE)
            /\ hist' = Call("Write", id, <<size, offset>>, size)
       ELSE /\ fc' = [fc EXCEPT ![id].inside = @ - 1]
            /\ hist' = FailedOn("Write", id, "unknown")
            /\ UNCHANGED <<timer_, store_queue, store_state_>>
  /\ UNCHANGED <<dirVars, children_, children_count_position_, puts, versions_,
                 tdq, dtor, ub>>

\* Two threads have used one encryptor at the same time, which the encryptor
\* does not support: next to going on as if nothing had happened, the
\* program can fail in any way.
DataRace(id) ==
  /\ Running
  /\ fc[id].raced
  /\ ub' = "data_race"
  /\ hist' = Void
  /\ UNCHANGED <<dirVars, children_, children_count_position_, store_state_,
                 timer_, store_queue, puts, versions_, fc, tdq, dtor>>

\* What Drive::Read returns when the encryptor's Read succeeded and its size()
\* is S: offset + size is a uint64_t sum, the result a uint32_t.
ReadResult(size, offset, S) ==
  IF Wrap64(offset + size) > S
    THEN IF offset > S THEN 0 ELSE (S - offset) % (2^SizeBits)
    ELSE size

\* Drive::Read.  ok is whether the encryptor's Read succeeds and S the size
\* the encryptor reports.  Nothing of the file or its parent changes.
Read(id, size, offset, ok, S) ==
  /\ Alive
  /\ IsFile(id)
  /\ HeldOpens(id) > 0
  /\ fc[id].self_encryptor # 0
  /\ hist' = IF ok
               THEN Call("Read", id, <<size, offset, S>>, ReadResult(size, offset, S))
               ELSE FailedOn("Read", id, "unknown")
  /\ UNCHANGED <<dirVars, children_, children_count_position_, store_state_,
                 timer_, store_queue, puts, versions_, fc, tdq, dtor, ub>>

\* Drive::Flush with a successful encryptor flush.
Flush(id) ==
  /\ Alive
  /\ IsFile(id)
  /\ HeldOpens(id) > 0
  /\ fc' = [fc EXCEPT ![id].dirty = IF fc[id].self_encryptor # 0 THEN FALSE ELSE @]
  /\ hist' = Void
  /\ UNCHANGED <<dirVars, children_, children_count_position_, store_state_,
                 timer_, store_queue, puts, versions_, tdq, dtor, ub>>

\* ---------------------------------------------------------------- executor

\* The wait pending on a file's teardown timer expires.
FileTimerExpire(id) ==
  /\ Running
  /\ fc[id].armed > 0
  /\ Room(tdq[id].ok, fc[id].armed)
  /\ fc' = [fc EXCEPT ![id].armed = 0]
  /\ tdq' = [tdq EXCEPT ![id].ok = @ + fc[id].armed]
  /\ hist' = Void
  /\ UNCHANGED <<dirVars, children_, children_count_position_, store_state_,
                 timer_, store_queue, puts, versions_, dtor, ub>>

\* The handler of ScheduleDeletionOfEncryptor, called without error.
RunTeardown(id) ==
  /\ Running
  /\ tdq[id].ok > 0
  /\ puts < kThreads
  /\ tdq' = [tdq EXCEPT ![id].ok = @ - 1]
  /\ fc' = [fc EXCEPT ![id] = IF fc[id].open_count = 0
                                THEN FlushChildAndDeleteEncryptor(fc[id])
                                ELSE fc[id]]
  /\ hist' = Hist("RunTeardown", id, fc[id].open_count, fc[id].self_encryptor)
  /\ UNCHANGED <<dirVars, children_, children_count_position_, store_state_,
                 timer_, store_queue, puts, versions_, dtor, ub>>

\* The same handler, called with operation_aborted.
RunTeardownAborted(id) ==
  /\ Running
  /\ tdq[id].aborted > 0
  /\ puts < kThreads
  /\ tdq' = [tdq EXCEPT ![id].aborted = @ - 1]
  /\ hist' = Hist("RunTeardownAborted", id, 0, <<>>)
  /\ UNCHANGED <<dirVars, children_, children_count_position_, store_state_,
                 timer_, store_queue, puts, versions_, fc, dtor, ub>>

\* The handler of a FileContext that has been destroyed (RemoveChild, or the
\* Directory's destruction) is called without error: it reads the object
\* through the pointer it captured.
RunTeardownDangling(id) ==
  /\ Running
  /\ tdq[id].stale > 0
  /\ puts < kThreads
  /\ tdq' = [tdq EXCEPT ![id].stale = @ - 1]
  /\ ub' = "dangling_file_context"
  /\ hist' = Void
  /\ UNCHANGED <<dirVars, children_, children_count_position_, store_state_,
                 timer_, store_queue, puts, versions_, fc, dtor>>

\* The wait pending on the Directory's store timer expires.
StoreTimerExpire ==
  /\ Running
  /\ timer_ > 0
  /\ Room(store_queue.ok, timer_)
  /\ store_queue' = [store_queue EXCEPT !.ok = @ + timer_]
  /\ timer_' = 0
  /\ hist' = Void
  /\ UNCHANGED <<dirVars, children_, children_count_position_, store_state_,
                 puts, versions_, fc, tdq, dtor, ub>>

\* Directory::Serialise: the serialised directory (directory_id, max_versions
\* and the children's meta data in order; never parent_id_), every live
\* encryptor flushed and its teardown timer cancelled, store_state_ kOngoing.
MetaDataOf(c) ==
  [name |-> c.name, is_directory |-> c.is_directory, st_size |-> c.st_size]

\* A Serialise that writes parent_id_ too.
SerialisedDirectoryWithParent ==
  [directory_id |-> directory_id_, max_versions |-> max_versions_,
   parent_id |-> parent_id_,
   children |-> [i \in 1..Len(children_) |-> MetaDataOf(fc[children_[i]])]]

SerialisedDirectory ==
  [directory_id |-> directory_id_, max_versions |-> max_versions_,
   children |-> [i \in 1..Len(children_) |-> MetaDataOf(fc[children_[i]])]]

\* What the record that Serialise writes for a child says of the file's data
\* map: ToProtobuf is the first statement of the loop body, so the data map
\* is written as it is before the child's encryptor is flushed, and it
\* covers the bytes written so far only if none of them is still buffered.
SerialisedDataMap(c) == [covers_all_written |-> ~c.dirty]

\* The data maps in the children records of one Serialise output.
SerialisedDataMaps ==
  [i \in 1..Len(children_) |-> SerialisedDataMap(fc[children_[i]])]

Serialise ==
  /\ \A id \in Range(children_) :
       Room(tdq[id].aborted, SerialiseChild(fc[id]).cancelled)
  /\ fc' = [id \in Ids |-> IF id \in Range(children_)
                             THEN SerialiseChild(fc[id]).ctx
                             ELSE fc[id]]
  /\ tdq' = [id \in Ids |-> IF id \in Range(children_)
                              THEN [tdq[id] EXCEPT !.aborted =
                                      @ + SerialiseChild(fc[id]).cancelled]
                              ELSE tdq[id]]
  /\ store_state_' = "Ongoing"

\* The store functor (GetStoreFunctor) called without error, from the expired
\* timer or from the post of DoScheduleForStoring(false): put_functor starts a
\* store attempt with Serialise.
RunStoreFunctor ==
  /\ Running
  /\ store_queue.ok > 0
  /\ puts < kThreads
  /\ Len(versions_) + puts < MaxHistory
  /\ IF dtor.pc = "done"
       THEN /\ ub' = "destroyed_directory"
            /\ store_queue' = [store_queue EXCEPT !.ok = @ - 1]
            /\ hist' = Void
            /\ UNCHANGED <<store_state_, fc, tdq, puts, dtor>>
       ELSE /\ Serialise
            /\ store_queue' = [store_queue EXCEPT !.ok = @ - 1]
            /\ puts' = puts + 1
            /\ dtor' = [dtor EXCEPT !.stored = (dtor.pc = "waiting") \/ @]
            /\ hist' = Hist("Serialise", 0, 0, SerialisedDirectory)
            /\ UNCHANGED ub
  /\ UNCHANGED <<dirVars, children_, children_count_position_, timer_, versions_>>

\* The store functor called with operation_aborted: nothing is stored.
RunStoreFunctorAborted ==
  /\ Running
  /\ store_queue.aborted > 0
  /\ puts < kThreads
  /\ store_queue' = [store_queue EXCEPT !.aborted = @ - 1]
  /\ hist' = Void
  /\ UNCHANGED <<dirVars, children_, children_count_position_, store_state_,
                 timer_, puts, versions_, fc, tdq, dtor, ub>>

\* AddNewVersion that always takes the emplace_back branch.
NewVersionsAtBack(vs, version_id) ==
  IF vs = <<>>
    THEN <<VersionName(0, version_id)>>
    ELSE vs \o <<VersionName(Head(vs).index + 1, version_id)>>

\* The versions_ that Directory::AddNewVersion leaves.
NewVersions(vs, version_id) ==
  IF vs = <<>>
    THEN <<VersionName(0, version_id)>>
    ELSE <<VersionName(Head(vs).index + 1, version_id)>> \o vs

\* The tuple that Directory::AddNewVersion returns.
NewVersionResult(vs, version_id) ==
  IF vs = <<>>
    THEN <<directory_id_, EmptyVersionName, NewVersions(vs, version_id)[1]>>
    ELSE <<directory_id_, NewVersions(vs, version_id)[2],
           NewVersions(vs, version_id)[1]>>

\* Directory::AddNewVersion, which ends a store attempt.
AddNewVersion(version_id) ==
  /\ Running
  /\ puts > 0
  /\ puts' = puts - 1
  /\ IF dtor.pc = "done"
       THEN /\ ub' = "destroyed_directory"
            /\ hist' = Void
            /\ UNCHANGED <<store_state_, versions_>>
       ELSE /\ store_state_' = "Complete"
            /\ versions_' = NewVersions(versions_, version_id)
            /\ hist' = Hist("AddNewVersion", 0, version_id,
                            NewVersionResult(versions_, version_id))
            /\ UNCHANGED ub
  /\ UNCHANGED <<dirVars, children_, children_count_position_, timer_,
                 store_queue, fc, tdq, dtor>>

\* ------------------------------------------------------------- ~Directory

\* Directory::~Directory up to its wait: DoScheduleForStoring(false) under the
\* lock.  No driver call is inside the directory when it is destroyed.
DirectoryDestroy ==
  /\ Alive
  /\ \A id \in Ids : fc[id].opening = 0 /\ fc[id].releasing = 0
  /\ PostRoom
  /\ DoScheduleForStoring(FALSE)
  /\ dtor' = [pc |-> "waiting", start |-> store_state_, stored |-> FALSE,
              timeout |-> FALSE]
  /\ hist' = Void
  /\ UNCHANGED <<dirVars, children_, children_count_position_, puts, versions_,
                 fc, tdq, ub>>

\* Nothing is left that could bring store_state_ to kComplete: the wait_for
\* of the destructor can only time out.
NoStoreOutstanding ==
  timer_ = 0 /\ store_queue.ok = 0 /\ puts = 0

\* The wait of ~Directory ends (store_state_ is kComplete, or it timed out)
\* and the members are destroyed: timer_ (its pending wait is aborted) and
\* children_ (each FileContext's destructor).
DirectoryDestroyed ==
  /\ Running
  /\ dtor.pc = "waiting"
  /\ store_state_ = "Complete" \/ NoStoreOutstanding
  /\ Room(store_queue.aborted, timer_)
  /\ \A id \in Range(children_) :
       /\ Room(tdq[id].aborted, DestroyCancelled(fc[id]))
       /\ Room(tdq[id].stale, tdq[id].ok)
  /\ dtor' = [dtor EXCEPT !.pc = "done", !.timeout = store_state_ # "Complete"]
  /\ timer_' = 0
  /\ store_queue' = [store_queue EXCEPT !.aborted = @ + timer_]
  /\ tdq' = [id \in Ids |-> IF id \in Range(children_)
                              THEN TdqAfterDestroy(tdq[id], fc[id])
                              ELSE tdq[id]]
  /\ fc' = [id \in Ids |-> Blank]
  /\ children_' = <<>>
  /\ hist' = IF \E id \in Range(children_) : fc[id].timer
               THEN LET id == CHOOSE i \in Range(children_) : fc[i].timer
                    IN  Hist("~FileContext", id,
                             DestroyFileContext(fc[id]).parent_calls,
                             DestroyFileContext(fc[id]).ctx)
               ELSE Void
  /\ UNCHANGED <<dirVars, children_count_position_, store_state_, puts,
                 versions_, ub>>

\* ------------------------------------------------------------ SetNewParent

NoSetNewParent == [pc |-> "idle", parent_id |-> 0, put_functor |-> 0]

\* SetNewParent with its arguments, its wait over: parent_id_ is assigned and
\* store_functor_ rebound.  hist keeps the store_state_ it found.
SetNewParentAssign(parent_id, put_functor) ==
  /\ parent_id_' = parent_id
  /\ store_functor_' = put_functor
  /\ set_new_parent' = NoSetNewParent
  /\ hist' = [Call("SetNewParent", 0, <<parent_id, put_functor>>, <<>>)
               EXCEPT !.err = store_state_]

\* Directory::SetNewParent is called: under the lock, wait_for tests its
\* predicate; if store_state_ is not kOngoing the call goes on to assign,
\* otherwise the thread waits on cond_var_.
SetNewParent(parent_id, put_functor) ==
  /\ Alive
  /\ set_new_parent.pc = "idle"
  /\ IF store_state_ # "Ongoing"
       THEN SetNewParentAssign(parent_id, put_functor)
       ELSE /\ set_new_parent' = [pc |-> "waiting", parent_id |-> parent_id,
                                  put_functor |-> put_functor]
            /\ hist' = Void
            /\ UNCHANGED <<parent_id_, store_functor_>>
  /\ UNCHANGED <<directory_id_, max_versions_, initial_versions, script,
                 children_, children_count_position_, store_state_, timer_,
                 store_queue, puts, versions_, fc, tdq, dtor, ub>>

\* The wait of SetNewParent ends with its predicate true (notified by
\* AddNewVersion, or at the timeout with store_state_ no longer kOngoing).
SetNewParentWake ==
  /\ Running
  /\ dtor.pc # "done"
  /\ set_new_parent.pc = "waiting"
  /\ store_state_ # "Ongoing"
  /\ SetNewParentAssign(set_new_parent.parent_id, set_new_parent.put_functor)
  /\ UNCHANGED <<directory_id_, max_versions_, initial_versions, script,
                 children_, children_count_position_, store_state_, timer_,
                 store_queue, puts, versions_, fc, tdq, dtor, ub>>

\* The wait of SetNewParent times out after its 500 ms with store_state_
\* still kOngoing: wait_for returns false.  With assertions compiled in,
\* assert(result) ends the program; with NDEBUG the call goes on to assign.
SetNewParentTimeout ==
  /\ Running
  /\ dtor.pc # "done"
  /\ set_new_parent.pc = "waiting"
  /\ store_state_ = "Ongoing"
  /\ \/ /\ ub' = "assertion_failed"
        /\ set_new_parent' = NoSetNewParent
        /\ hist' = Void
        /\ UNCHANGED <<parent_id_, store_functor_>>
     \/ /\ SetNewParentAssign(set_new_parent.parent_id,
                               set_new_parent.put_functor)
        /\ UNCHANGED ub
  /\ UNCHANGED <<directory_id_, max_versions_, initial_versions, script,
                 children_, children_count_position_, store_state_, timer_,
                 store_queue, puts, versions_, fc, tdq, dtor>>

\* ------------------------------------------------- opens then releases

\* No run of opens and releases has begun.
NoScript == [phase |-> "none"]

\* No call of the driver is inside Open or Release of the file id.
Quiet(id) == fc[id].opening = 0 /\ fc[id].releasing = 0

\* The driver is about to call Open n >= 1 times, then Release n times, on
\* the file id: the FileContext as it is just before the opens is recorded.
BeginOpens(id) ==
  /\ Alive
  /\ script.phase = "none"
  /\ IsFile(id)
  /\ Quiet(id)
  /\ fc[id].open_count < MaxOpen
  /\ script' = [phase |-> "opens", id |-> id, before |-> fc[id]]
  /\ hist' = Void
  /\ UNCHANGED <<directory_id_, max_versions_, initial_versions, parent_id_,
                 store_functor_, set_new_parent, children_,
                 children_count_position_, store_state_, timer_, store_queue,
                 puts, versions_, fc, tdq, dtor, ub>>

\* The n opens have returned; the driver turns to the n releases.
BeginReleases ==
  /\ script.phase = "opens"
  /\ Quiet(script.id)
  /\ fc[script.id].open_count > script.before.open_count
  /\ script' = [script EXCEPT !.phase = "releases"]
  /\ hist' = Void
  /\ UNCHANGED <<directory_id_, max_versions_, initial_versions, parent_id_,
                 store_functor_, set_new_parent, children_,
                 children_count_position_, store_state_, timer_, store_queue,
                 puts, versions_, fc, tdq, dtor, ub>>

\* The driver may call Open on id: always outside a run, and during the
\* opens of a run on the file of the run.
MayOpen(id) ==
  script.phase = "none" \/ (script.phase = "opens" /\ id = script.id)

\* The driver may call Release on id: always outside a run, and during the
\* releases of a run as long as fewer releases than opens were made.
MayRelease(id) ==
  \/ script.phase = "none"
  \/ /\ script.phase = "releases"
     /\ id = script.id
     /\ fc[id].open_count > script.before.open_count

\* The n releases of a run have returned.
ScriptDone ==
  /\ script.phase = "releases"
  /\ Quiet(script.id)
  /\ fc[script.id].open_count = script.before.open_count

\* ------------------------------------------------------------ construction

NoDtor == [pc |-> "none", start |-> "Complete", stored |-> FALSE, timeout |-> FALSE]

\* The version histories a directory is reconstructed with: what the version
\* store returns, newest first, at most kMaxVersions of them.
InitialHistories ==
  {<<>>} \cup
  {[i \in 1..n |-> VersionName(first + n - i, 1)] :
     n \in 1..kMaxVersions, first \in FirstIndices}

\* The serialised directories a Directory is reconstructed from: what
\* Serialise emits, so the children are name-unique and in name order.
SerialisedDirectories ==
  {[directory_id |-> d, max_versions |-> kMaxVersions, children |-> metas] :
     d \in DirectoryIds,
     metas \in UNION {[1..n -> [name : Names, is_directory : BOOLEAN,
                                st_size : ParsedSizes]] :
                        n \in 0..MaxFiles}}

WellFormed(blob) ==
  \A i, j \in 1..Len(blob.children) :
     i < j => blob.children[i].name < blob.children[j].name

\* The children_ that Directory::Directory(parent_id, serialised_directory,
\* ...) builds from the serialised directory blob, as FileContexts in order:
\* one FileContext per serialised child, parent this, then sorted by name.
ParsedChildren(blob) ==
  LET n == Len(blob.children)
      ctx == [i \in 1..n |-> FileContextFromMetaData(blob.children[i], 1)]
      order == SortByName([i \in 1..n |-> i], ctx)
  IN  [i \in 1..n |-> ctx[order[i]]]

\* The members that constructor reads from the serialised directory.
ParsedDirectory(blob) ==
  [directory_id |-> blob.directory_id, max_versions |-> blob.max_versions,
   children |-> ParsedChildren(blob)]

\* Directory::Directory(parent_id, directory_id, ...): a new, empty directory
\* with one of the ids, scheduled for storing by its constructor.
InitNewWith(ids) ==
  /\ directory_id_ \in ids
  /\ max_versions_ = kMaxVersions
  /\ children_ = <<>>
  /\ children_count_position_ = 0
  /\ versions_ = <<>>
  /\ initial_versions = <<>>
  /\ fc = [id \in Ids |-> Blank]
  /\ timer_ = 1
  /\ store_queue = EmptyStoreQueue
  /\ store_state_ = "Pending"
  /\ parent_id_ \in InitialParentIds
  /\ store_functor_ \in InitialPutFunctors

\* Directory::Directory(parent_id, serialised_directory, versions, ...), for
\* a serialised directory of blobs and a history of histories.
InitParsedFrom(blobs, histories) ==
  \E blob \in blobs, versions \in histories :
    /\ WellFormed(blob)
    /\ directory_id_ = blob.directory_id
    /\ max_versions_ = blob.max_versions
    /\ versions_ = versions
    /\ initial_versions = versions
    /\ LET n == Len(blob.children)
           ctx == [id \in Ids |-> IF id <= n
                                    THEN FileContextFromMetaData(blob.children[id], 1)
                                    ELSE Blank]
       IN  /\ fc = ctx
           /\ children_ = SortByName([i \in 1..n |-> i], ctx)
    /\ children_count_position_ = 0
    /\ timer_ = 0
    /\ store_queue = EmptyStoreQueue
    /\ store_state_ = "Complete"
    /\ parent_id_ \in InitialParentIds
    /\ store_functor_ \in InitialPutFunctors

InitNew == InitNewWith(DirectoryIds)

InitParsed == InitParsedFrom(SerialisedDirectories, InitialHistories)

\* What no constructor sets: nothing queued, no store attempt, not destroyed.
InitRest ==
  /\ tdq = [id \in Ids |-> EmptyTdq]
  /\ puts = 0
  /\ dtor = NoDtor
  /\ ub = "none"
  /\ hist = Void
  /\ script = NoScript
  /\ set_new_parent = NoSetNewParent

Init == (InitNew \/ InitParsed) /\ InitRest

Next ==
  \/ \E name \in Names, is_directory \in BOOLEAN : Create(name, is_directory)
  \/ \E name \in Names : RemoveChild(name)
  \/ \E old_name, new_name \in Names : RenameChild(old_name, new_name)
  \/ \E name \in Names : GetChild(name)
  \/ \E name \in Names : GetMutableChild(name)
  \/ GetChildAndIncrementCounter
  \/ ResetChildrenCounter
  \/ ScheduleForStoring
  \/ StoreImmediatelyIfPending
  \/ \E id \in Ids : OpenIncrement(id)
  \/ \E id \in Ids : OpenInitialise(id)
  \/ \E id \in Ids : ReleaseDecrement(id)
  \/ \E id \in Ids : ReleaseSchedule(id)
  \/ \E id \in Ids, size \in IoSizes, offset \in Offsets, ok \in BOOLEAN :
       Write(id, size, offset, ok)
  \/ \E id \in Ids, size \in IoSizes, offset \in Offsets, ok \in BOOLEAN,
        S \in Offsets : Read(id, size, offset, ok, S)
  \/ \E id \in Ids : WriteBegin(id)
  \/ \E id \in Ids, size \in IoSizes, offset \in Offsets, ok \in BOOLEAN :
       WriteEnd(id, size, offset, ok)
  \/ \E id \in Ids : DataRace(id)
  \/ \E id \in Ids : Flush(id)
  \/ \E id \in Ids : FileTimerExpire(id)
  \/ \E id \in Ids : RunTeardown(id)
  \/ \E id \in Ids : RunTeardownAborted(id)
  \/ \E id \in Ids : RunTeardownDangling(id)
  \/ StoreTimerExpire
  \/ RunStoreFunctor
  \/ RunStoreFunctorAborted
  \/ \E version_id \in VersionIds : AddNewVersion(version_id)
  \/ DirectoryDestroy
  \/ DirectoryDestroyed
  \/ \E parent_id \in ParentIds, put_functor \in PutFunctors :
       SetNewParent(parent_id, put_functor)
  \/ SetNewParentWake
  \/ SetNewParentTimeout

Spec == Init /\ [][Next]_vars

\* ---------------------------------------------- one file and its directory

\* The life of one file, called 1, in its directory: the driver's calls on
\* it, its teardown timer, and the directory's stores.  The directory is new,
\* or was reconstructed with the file in it.
InitFile ==
  /\ \/ InitNewWith({1})
     \/ InitParsedFrom({b \in SerialisedDirectories :
                          /\ b.directory_id = 1
                          /\ Len(b.children) = 1
                          /\ b.children[1] =
                               [name |-> 1, is_directory |-> FALSE, st_size |-> 1]},
                       {<<>>})
  /\ InitRest

NextFile ==
  \/ Create(1, FALSE)
  \/ \E id \in Ids : OpenIncrement(id)
  \/ \E id \in Ids : OpenInitialise(id)
  \/ \E id \in Ids : ReleaseDecrement(id)
  \/ \E id \in Ids : ReleaseSchedule(id)
  \/ \E id \in Ids : Write(id, 1, 0, TRUE)
  \/ \E id \in Ids : Flush(id)
  \/ \E id \in Ids : FileTimerExpire(id)
  \/ \E id \in Ids : RunTeardown(id)
  \/ \E id \in Ids : RunTeardownAborted(id)
  \/ StoreTimerExpire
  \/ RunStoreFunctor
  \/ RunStoreFunctorAborted
  \/ \E version_id \in VersionIds : AddNewVersion(version_id)

SpecFile == InitFile /\ [][NextFile]_vars

\* ------------------------------------- a directory of subdirectory entries

\* The Directory's own state machine: its children list, its store timer,
\* its store attempts, its versions and its destruction.  The children are
\* subdirectory entries, which hold no encryptor and no timer.
InitDir ==
  /\ \/ InitNew
     \/ InitParsedFrom({b \in SerialisedDirectories :
                          \A i \in 1..Len(b.children) :
                            /\ b.children[i].is_directory
                            /\ b.children[i].st_size = 0},
                       InitialHistories)
  /\ InitRest

NextDir ==
  \/ \E name \in Names : Create(name, TRUE)
  \/ \E name \in Names : RemoveChild(name)
  \/ \E old_name, new_name \in Names : RenameChild(old_name, new_name)
  \/ ScheduleForStoring
  \/ StoreImmediatelyIfPending
  \/ StoreTimerExpire
  \/ RunStoreFunctor
  \/ RunStoreFunctorAborted
  \/ \E version_id \in VersionIds : AddNewVersion(version_id)
  \/ DirectoryDestroy
  \/ DirectoryDestroyed

SpecDir == InitDir /\ [][NextDir]_vars

\* ------------------------------------------- a write during a store

\* One file that is written by a driver thread while the executor stores
\* its directory.
NextRace ==
  \/ Create(1, FALSE)
  \/ \E id \in Ids : OpenIncrement(id)
  \/ \E id \in Ids : OpenInitialise(id)
  \/ \E id \in Ids : WriteBegin(id)
  \/ \E id \in Ids, ok \in BOOLEAN : WriteEnd(id, 1, 0, ok)
  \/ \E id \in Ids : DataRace(id)
  \/ StoreTimerExpire
  \/ RunStoreFunctor
  \/ RunStoreFunctorAborted
  \/ \E version_id \in VersionIds : AddNewVersion(version_id)

SpecRace == InitFile /\ [][NextRace]_vars

\* --------------------------------------------- the children of a directory

\* A directory, new or reconstructed with at most one entry, to which
\* entries, files and subdirectories, are added while it is enumerated and
\* its store attempts begin.
InitChildren ==
  /\ \/ InitNewWith({1})
     \/ InitParsedFrom({b \in SerialisedDirectories :
                          /\ b.directory_id = 1
                          /\ Len(b.children) <= 1
                          /\ \A i \in 1..Len(b.children) :
                               b.children[i].st_size = 0},
                       {<<>>})
  /\ InitRest

NextChildren ==
  \/ \E name \in Names, is_directory \in BOOLEAN : Create(name, is_directory)
  \/ GetChildAndIncrementCounter
  \/ ResetChildrenCounter
  \/ StoreTimerExpire
  \/ RunStoreFunctor
  \/ RunStoreFunctorAborted

SpecChildren == InitChildren /\ [][NextChildren]_vars

\* A new directory whose entries, subdirectories, are looked up, renamed and
\* removed by name while it is enumerated and stored.
InitLookup == InitNewWith({1}) /\ InitRest

NextLookup ==
  \/ \E name \in Names : Create(name, TRUE)
  \/ \E name \in Names : RemoveChild(name)
  \/ \E old_name, new_name \in Names : RenameChild(old_name, new_name)
  \/ \E name \in Names : GetChild(name)
  \/ \E name \in Names : GetMutableChild(name)
  \/ GetChildAndIncrementCounter
  \/ StoreTimerExpire
  \/ RunStoreFunctor
  \/ RunStoreFunctorAborted

SpecLookup == InitLookup /\ [][NextLookup]_vars

\* ------------------------------------------------- reads and writes of a file

\* The reads of one open file, with every size, offset and encryptor size.
NextRead ==
  \/ Create(1, FALSE)
  \/ \E id \in Ids : OpenIncrement(id)
  \/ \E id \in Ids : OpenInitialise(id)
  \/ \E id \in Ids, size \in IoSizes, offset \in Offsets, ok \in BOOLEAN,
        S \in Offsets : Read(id, size, offset, ok, S)

SpecRead == InitFile /\ [][NextRead]_vars

\* The writes of one open file, with every size and offset, and the stores of
\* its directory that the writes schedule.
NextWrite ==
  \/ Create(1, FALSE)
  \/ \E id \in Ids : OpenIncrement(id)
  \/ \E id \in Ids : OpenInitialise(id)
  \/ \E id \in Ids, size \in IoSizes, offset \in Offsets, ok \in BOOLEAN :
       Write(id, size, offset, ok)
  \/ StoreTimerExpire
  \/ RunStoreFunctor
  \/ RunStoreFunctorAborted
  \/ \E version_id \in VersionIds : AddNewVersion(version_id)

SpecWrite == InitFile /\ [][NextWrite]_vars

\* --------------------------------------------- n opens, then n releases

\* One file, opened and released by the driver, with its teardown timer; at
\* any quiet moment the driver may begin a run of n opens followed by n
\* releases, during which it makes no other call on the file.
NextScript ==
  \/ script.phase = "none" /\ Create(1, FALSE)
  \/ \E id \in Ids : BeginOpens(id)
  \/ BeginReleases
  \/ \E id \in Ids : MayOpen(id) /\ OpenIncrement(id)
  \/ \E id \in Ids : OpenInitialise(id)
  \/ \E id \in Ids : MayRelease(id) /\ ReleaseDecrement(id)
  \/ \E id \in Ids : ReleaseSchedule(id)
  \/ \E id \in Ids : FileTimerExpire(id)
  \/ \E id \in Ids : RunTeardown(id)
  \/ \E id \in Ids : RunTeardownAborted(id)

SpecScript == InitFile /\ [][NextScript]_vars

\* ------------------------------------------- files and entries, serialised

\* A new directory in which files and subdirectory entries are created (the
\* files open), renamed and written, and the store attempts that serialise
\* it; the attempts are not followed to their end.
InitMixed == InitNew /\ InitRest

NextMixed ==
  \/ \E name \in Names, is_directory \in BOOLEAN : Create(name, is_directory)
  \/ \E old_name, new_name \in Names : RenameChild(old_name, new_name)
  \/ \E id \in Ids : Write(id, 1, 1, TRUE)
  \/ StoreTimerExpire
  \/ RunStoreFunctor
  \/ RunStoreFunctorAborted

SpecMixed == InitMixed /\ [][NextMixed]_vars

\* ------------------------------------------------- a directory that is moved

\* A new directory that is given new parents while entries are added to it
\* and it is stored.
NextParent ==
  \/ \E name \in Names : Create(name, TRUE)
  \/ \E parent_id \in ParentIds, put_functor \in PutFunctors :
       SetNewParent(parent_id, put_functor)
  \/ SetNewParentWake
  \/ SetNewParentTimeout
  \/ StoreTimerExpire
  \/ RunStoreFunctor
  \/ RunStoreFunctorAborted
  \/ \E version_id \in VersionIds : AddNewVersion(version_id)

InitParent == InitNew /\ InitRest

SpecParent == InitParent /\ [][NextParent]_vars

\* --------------------------------------------- the store of a directory

\* A new directory that gains subdirectory entries while its deferred store
\* runs: the constructor and AddChild schedule the store, the driver calls
\* StoreImmediatelyIfPending at any moment, the executor runs the timer's
\* handlers and the store attempts end with AddNewVersion.
InitStore == InitNewWith({1}) /\ InitRest

NextStore ==
  \/ \E name \in Names : Create(name, TRUE)
  \/ StoreImmediatelyIfPending
  \/ StoreTimerExpire
  \/ RunStoreFunctor
  \/ RunStoreFunctorAborted
  \/ \E version_id \in VersionIds : AddNewVersion(version_id)

SpecStore == InitStore /\ [][NextStore]_vars

\* --------------------------------------------- files that are removed

\* One file that is created, opened, written, released and removed from its
\* directory, or destroyed with it, while its teardown timer and the
\* directory's store timer run.
NextRemove ==
  \/ Create(1, FALSE)
  \/ \E name \in Names : RemoveChild(name)
  \/ \E id \in Ids : ReleaseDecrement(id)
  \/ \E id \in Ids : ReleaseSchedule(id)
  \/ \E id \in Ids : Write(id, 1, 0, TRUE)
  \/ \E id \in Ids : FileTimerExpire(id)
  \/ \E id \in Ids : RunTeardown(id)
  \/ \E id \in Ids : RunTeardownAborted(id)
  \/ \E id \in Ids : RunTeardownDangling(id)
  \/ StoreTimerExpire
  \/ RunStoreFunctor
  \/ RunStoreFunctorAborted
  \/ \E version_id \in VersionIds : AddNewVersion(version_id)
  \/ DirectoryDestroy
  \/ DirectoryDestroyed

InitRemove ==
  /\ InitParsedFrom({b \in SerialisedDirectories :
                       /\ b.directory_id = 1
                       /\ Len(b.children) = 1
                       /\ b.children[1] =
                            [name |-> 1, is_directory |-> FALSE, st_size |-> 0]},
                    {<<>>})
  /\ InitRest

SpecRemove == InitRemove /\ [][NextRemove]_vars

\* ---------------------------------------------- enumerating a directory

\* A directory of subdirectory entries that is enumerated with the cursor
\* (Drive's readdir and releasedir) while entries are added, removed and
\* renamed.
NextCursor ==
  \/ \E name \in Names : Create(name, TRUE)
  \/ \E name \in Names : RemoveChild(name)
  \/ \E old_name, new_name \in Names : RenameChild(old_name, new_name)
  \/ GetChildAndIncrementCounter
  \/ ResetChildrenCounter
  \/ StoreTimerExpire
  \/ RunStoreFunctor
  \/ RunStoreFunctorAborted

SpecCursor == InitLookup /\ [][NextCursor]_vars

\* The same directory when time passes and the executor is fair: a wait that
\* is armed expires, a handler that is queued is run by one of the executor's
\* threads, and a store attempt that has begun ends.  The Directory is not
\* mutated for ever, since it holds at most MaxFiles children.
FairStore ==
  /\ WF_vars(StoreTimerExpire)
  /\ WF_vars(RunStoreFunctor)
  /\ WF_vars(RunStoreFunctorAborted)
  /\ WF_vars(\E version_id \in VersionIds : AddNewVersion(version_id))

SpecStoreLive == InitStore /\ [][NextStore]_vars /\ FairStore

\* ================================================================== claims

\* C1 (SpecFile): buffered plaintext is never lost: whenever a file's
\* encryptor is replaced by a freshly constructed one, the encryptor it
\* replaces has been flushed since the last Write to it.
NoBufferedPlaintextLost ==
  [][\A id \in Ids :
       (/\ fc[id].self_encryptor # 0
        /\ fc'[id].self_encryptor # 0
        /\ fc'[id].self_encryptor # fc[id].self_encryptor)
       => ~fc[id].dirty]_vars

\* C2 (SpecFile): when the Open that raised open_count to 1 cancels a
\* teardown wait that is still pending, the file keeps the encryptor it has
\* (none is constructed, nothing buffered is touched) and the wait becomes
\* one aborted handler; an aborted teardown handler changes no FileContext.
DefusedTeardownKeepsEncryptor ==
  [][\A id \in Ids :
       /\ (fc'[id].opening < fc[id].opening /\ fc[id].timer /\ fc[id].armed >= 1)
          => /\ fc'[id].self_encryptor = fc[id].self_encryptor
             /\ fc'[id].dirty = fc[id].dirty
             /\ fc'[id].flushed = fc[id].flushed
             /\ fc'[id].armed = 0
             /\ tdq'[id].aborted = tdq[id].aborted + 1
             /\ tdq'[id].ok = tdq[id].ok
       /\ tdq'[id].aborted < tdq[id].aborted => fc' = fc]_vars

\* C2 witness: an Open has just defused a pending teardown of a file whose
\* encryptor holds unflushed bytes, and the file is open with that encryptor.
DefusedTeardownReached ==
  /\ hist.op = "OpenInitialise"
  /\ hist.n >= 1
  /\ fc[hist.id].open_count = 1
  /\ fc[hist.id].self_encryptor # 0
  /\ fc[hist.id].dirty

\* C3 (SpecFile): a child that is a file with open_count > 0 has its
\* encryptor and its timer (the assertion of GetChild / GetMutableChild).
OpenFileHasEncryptorAndTimer ==
  \A id \in Range(children_) :
    fc[id].open_count = 0
    \/ (/\ fc[id].open_count > 0
        /\ (fc[id].is_directory \/ (fc[id].self_encryptor # 0 /\ fc[id].timer)))

\* C4 (SpecFile): after the teardown handler has run, without error, on a
\* file whose open_count is 0, the file has no encryptor and flushed is true.
TeardownLeavesFlushed ==
  (hist.op = "RunTeardown" /\ hist.n = 0)
  => (fc[hist.id].self_encryptor = 0 /\ fc[hist.id].flushed)

\* C5 (SpecDir): every change of store_state_ is Complete to Pending,
\* Pending to Ongoing or Ongoing to Complete.
StoreStateCycle ==
  [][store_state_' # store_state_
     => <<store_state_, store_state_'>> \in
          {<<"Complete", "Pending">>, <<"Pending", "Ongoing">>,
           <<"Ongoing", "Complete">>}]_vars

\* C6 (SpecDir): a mutation leaves exactly one wait pending on the store
\* timer and adds no non-aborted handler: the wait that was pending before
\* it (armed by the previous mutation and not yet expired) becomes an aborted
\* handler.  So a run of mutations, each made before the previous wait
\* expired, ends in one wait, whose expiry queues one non-aborted handler;
\* and the Serialise of a store functor holds the children as the mutations
\* left them, in name order.
DebouncedStore ==
  [][/\ timer_' <= 1
     /\ hist'.op = "mutation"
        => /\ timer_' = 1
           /\ store_state_' = "Pending"
           /\ store_queue'.ok = store_queue.ok
           /\ store_queue'.aborted = store_queue.aborted + timer_
     /\ (timer_ = 1 /\ timer_' = 0 /\ hist'.op = "" /\ dtor' = dtor
         /\ store_queue'.aborted = store_queue.aborted)
        => store_queue'.ok = store_queue.ok + 1
     /\ hist'.op = "Serialise"
        => /\ store_queue'.ok = store_queue.ok - 1
           /\ hist'.ret.children =
                [i \in 1..Len(children_) |-> MetaDataOf(fc[children_[i]])]
           /\ IsSorted([i \in 1..Len(hist'.ret.children) |->
                          hist'.ret.children[i].name])]_vars

\* C6 witness: a store functor has just serialised two children, added by
\* mutations of which the later re-armed the timer the earlier had armed (the
\* aborted handler is still queued), and no other store is outstanding.
DebouncedStoreReached ==
  /\ hist.op = "Serialise"
  /\ Len(hist.ret.children) = 2
  /\ store_queue.aborted >= 1
  /\ store_queue.ok = 0
  /\ timer_ = 0
  /\ puts = 1

\* C7 (SpecDir): when a Directory destroyed in state Pending has been
\* destroyed, a store functor has serialised it since the destructor began,
\* store_state_ is Complete, and the destructor's wait did not time out.
DestructorForcesPendingStore ==
  (dtor.pc = "done" /\ dtor.start = "Pending")
  => (dtor.stored /\ store_state_ = "Complete" /\ ~dtor.timeout)

\* C8 (SpecDir): versions_ never holds more than max_versions_ entries.
VersionsBounded == Len(versions_) <= max_versions_

\* C9 (SpecDir): versions_ is the versions the Directory was constructed
\* with, below the ones AddNewVersion added, newest first, each index one
\* more than the next one's and the oldest added to an empty history 0; and
\* AddNewVersion returns directory_id_, the previous head (the empty version
\* name if there was none) and the new head, which carries the id passed in.
VersionChain ==
  LET n == Len(versions_)
      m == Len(initial_versions)
  IN  /\ m <= n
      /\ SubSeq(versions_, n - m + 1, n) = initial_versions
      /\ \A i \in 1..(n - 1) : versions_[i].index = versions_[i + 1].index + 1
      /\ (m = 0 /\ n > 0) => versions_[n].index = 0
      /\ hist.op = "AddNewVersion"
         => /\ n > m
            /\ versions_[1].id = hist.n
            /\ hist.ret = <<directory_id_,
                            IF n = 1 THEN EmptyVersionName ELSE versions_[2],
                            versions_[1]>>

\* C9 witness: the third AddNewVersion on a history that began empty has
\* just returned.
VersionChainReached ==
  /\ hist.op = "AddNewVersion"
  /\ initial_versions = <<>>
  /\ Len(versions_) = 3
  /\ versions_[1].index = 2

\* C10 (SpecDir): the children are in strictly increasing name order (so no
\* two have the same name), each FileContext appearing once.
ChildrenSortedAndUnique ==
  /\ IsSorted(NamesOf(children_, fc))
  /\ \A i, j \in 1..Len(children_) : i # j => children_[i] # children_[j]

\* C10 witness: a mutation has just left two children of which the one
\* constructed later comes first in name order.
ChildrenSortedReached ==
  /\ Len(children_) = 2
  /\ hist.op = "mutation"
  /\ children_[1] > children_[2]

\* C11 (SpecRead): a Read whose encryptor read succeeded returns 0 when the
\* offset is at or past the encryptor's size S, and otherwise the smaller of
\* size and S - offset.
ReadReturnsReadable ==
  (hist.op = "Read" /\ hist.err = "")
  => LET size == hist.args[1]
         offset == hist.args[2]
         S == hist.args[3]
     IN  hist.ret = IF offset >= S THEN 0 ELSE Min(size, S - offset)

\* C12 (SpecWrite): a Write whose encryptor write succeeded returns size, leaves
\* st_size the larger of what it was and offset + size, and leaves the parent
\* Pending with its store timer armed; a Write whose encryptor write failed
\* throws unknown and leaves st_size, store_state_ and the timer as they were.
WriteGrowsSizeAndSchedules ==
  [][hist'.op = "Write"
     => IF hist'.err = ""
          THEN /\ hist'.ret = hist'.args[1]
               /\ fc'[hist'.id].st_size =
                    Max(fc[hist'.id].st_size, hist'.args[2] + hist'.args[1])
               /\ store_state_' = "Pending"
               /\ timer_' = 1
          ELSE /\ hist'.err = "unknown"
               /\ fc' = fc
               /\ store_state_' = store_state_
               /\ timer_' = timer_
               /\ store_queue' = store_queue]_vars

SetNewParentWaitsForStore ==
  [][/\ (parent_id_' # parent_id_ \/ store_functor_' # store_functor_)
        => store_state_ # "Ongoing"
     /\ hist'.op = "SetNewParent" => hist'.err # "Ongoing"]_vars

\* C16 (SpecChildren): an AddChild whose name is already a child's throws
\* file_exists and leaves the children, the enumeration cursor, store_state_
\* and the store timer as they were, and only such an AddChild throws; an
\* AddChild that adds a child was given an unused name, sets the child's
\* parent to this Directory and leaves store_state_ Pending with the store
\* timer armed.
AddChildFailsOrInserts ==
  [][/\ \A name \in Range(NamesOf(children_, fc)), is_directory \in BOOLEAN :
          hist'.op \in {"AddChild", "mutation"} /\ Create(name, is_directory) =>
            /\ hist'.op = "AddChild"
            /\ hist'.err = "file_exists"
            /\ UNCHANGED <<children_, children_count_position_, store_state_,
                           timer_, store_queue, fc>>
     /\ hist'.op = "AddChild" =>
          \E name \in Range(NamesOf(children_, fc)), is_directory \in BOOLEAN :
            Create(name, is_directory)
     /\ children_' # children_ =>
          /\ hist'.err = ""
          /\ Len(children_') = Len(children_) + 1
          /\ \E id \in Range(children_') \ Range(children_) :
               /\ Range(children_') = Range(children_) \cup {id}
               /\ fc'[id].name \in Names \ Range(NamesOf(children_, fc))
               /\ fc'[id].parent = 1
          /\ store_state_' = "Pending"
          /\ timer_' = 1]_vars

\* An AddChild has been refused after the directory was enumerated and
\* stored.
AddChildRefused ==
  /\ hist.op = "AddChild"
  /\ hist.err = "file_exists"
  /\ children_count_position_ > 0
  /\ store_state_ = "Complete"
  /\ timer_ = 0

\* C17 (SpecLookup): GetChild, GetMutableChild, RemoveChild and RenameChild
\* of a name that is not a child's throw no_such_file and leave the children,
\* the enumeration cursor, store_state_ and the store timer as they were.
AbsentNameIsNoSuchFile ==
  [][\A name \in Names \ Range(NamesOf(children_, fc)) :
       /\ hist'.op \in {"GetChild", "GetMutableChild", "RemoveChild",
                        "RenameChild", "mutation"}
       /\ \/ GetChild(name)
          \/ GetMutableChild(name)
          \/ RemoveChild(name)
          \/ \E new_name \in Names : RenameChild(name, new_name)
       => /\ hist'.op \in {"GetChild", "GetMutableChild", "RemoveChild",
                           "RenameChild"}
          /\ hist'.err = "no_such_file"
          /\ UNCHANGED <<children_, children_count_position_, store_state_,
                         timer_, store_queue, fc>>]_vars

\* A RenameChild of a name that is no child's has been refused while the
\* directory was being enumerated and stored.
AbsentNameRefused ==
  /\ hist.op = "RenameChild"
  /\ hist.err = "no_such_file"
  /\ Len(children_) > 0
  /\ children_count_position_ > 0
  /\ store_state_ = "Ongoing"

\* C18 (SpecRace): the encryptor of a file is used under the parent's mutex
\* only, so no thread flushes or drops it while another thread is inside a
\* call of it.
NoConcurrentEncryptorUse == \A id \in Ids : ~fc[id].raced

\* C20 (SpecFile): open_count is never negative, whatever Create, Open and
\* Release calls the driver makes.
OpenCountNonNegative == \A id \in Ids : fc[id].open_count >= 0

\* The driver has released every open of a file, the one that Create made
\* included, and a handler of the file's teardown timer is due.
OpenCountBackAtZero ==
  \E id \in Ids :
    /\ IsFile(id)
    /\ fc[id].open_count = 0
    /\ fc[id].handles = 0
    /\ fc[id].releasing = 0
    /\ fc[id].timer
    /\ fc[id].armed = 1

SerialiseFlushesAndDrops ==
  [][hist'.op = "Serialise"
       => /\ store_state_' = "Ongoing"
          /\ \A id \in Range(children_) :
                fc[id].self_encryptor # 0
                => /\ ~fc'[id].dirty
                   /\ fc'[id].armed = 0
                   /\ ~fc'[id].flushed
                   /\ fc[id].open_count = 0 => fc'[id].self_encryptor = 0]_vars

\* C23 (SpecFile): no step takes the encryptor away from a file whose
\* open_count is positive, and a teardown handler that runs, without error,
\* when the file has been opened again changes nothing in any FileContext.
OpenFileKeepsEncryptor ==
  [][/\ \A id \in Ids :
          (fc[id].open_count > 0 /\ fc[id].self_encryptor # 0)
          => fc'[id].self_encryptor # 0
     /\ (hist'.op = "RunTeardown" /\ hist'.n > 0) => fc' = fc]_vars

\* C23 witness: the teardown handler of a file has run, without error, after
\* the file was opened again, and the file holds its encryptor with bytes
\* that are not flushed.
LateTeardownReached ==
  /\ hist.op = "RunTeardown"
  /\ hist.n > 0
  /\ fc[hist.id].open_count > 0
  /\ fc[hist.id].self_encryptor # 0
  /\ fc[hist.id].dirty

\* C24 (SpecRemove): when a FileContext that has a timer is destroyed, the
\* waits pending on its timer are cancelled (each becomes an aborted
\* handler) and the parent's FlushChildAndDeleteEncryptor is called once, so
\* that an encryptor it still holds has nothing unflushed and flushed is
\* true when the destructor's body ends; when a child without a timer is
\* destroyed, the parent is not called and no handler is queued.
DestroyedFileContextFlushed ==
  [][/\ hist'.op = "~FileContext"
        => LET id == hist'.id
               c == hist'.ret
           IN  /\ fc[id].timer
               /\ c.armed = 0
               /\ tdq'[id].aborted = tdq[id].aborted + fc[id].armed
               /\ hist'.n = 1
               /\ fc[id].self_encryptor # 0 => (~c.dirty /\ c.flushed)
     /\ \A id \in Range(children_) :
          (id \notin Range(children_') /\ ~fc[id].timer)
          => /\ hist'.op # "~FileContext" \/ hist'.id # id
             /\ tdq'[id] = tdq[id]]_vars

\* C24 witness: a file has just been destroyed whose encryptor held bytes
\* that were not flushed, and its destructor flushed them.
DestroyedWhileDirty ==
  /\ hist.op = "~FileContext"
  /\ hist.ret.self_encryptor # 0
  /\ hist.ret.st_size > 0
  /\ hist.ret.flushed
  /\ ~hist.ret.dirty
  /\ tdq[hist.id].aborted > 0

\* C25 (SpecCursor): the cursor never exceeds the number of children; a call
\* of GetChildAndIncrementCounter with the cursor at k < size returns the
\* child at position k + 1 of the name order (every child before it has a
\* smaller name, every child after it a greater one) and advances the cursor
\* by one, and with the cursor at size it returns null and leaves the cursor;
\* ResetChildrenCounter and every successful AddChild, RemoveChild and
\* RenameChild leave the cursor at 0; nothing else moves the cursor.
CursorEnumeratesInOrder ==
  [][/\ children_count_position_' <= Len(children_')
     /\ hist'.op = "GetChildAndIncrementCounter"
        => IF children_count_position_ < Len(children_)
             THEN /\ hist'.id # 0
                  /\ hist'.id = children_[children_count_position_ + 1]
                  /\ children_count_position_' = children_count_position_ + 1
                  /\ \A i \in 1..Len(children_) :
                       /\ i <= children_count_position_
                          => fc[children_[i]].name < fc[hist'.id].name
                       /\ i > children_count_position_ + 1
                          => fc[children_[i]].name > fc[hist'.id].name
             ELSE /\ hist'.id = 0
                  /\ children_count_position_' = children_count_position_
     /\ (hist'.op = "mutation" \/ ResetChildrenCounter)
        => children_count_position_' = 0
     /\ children_count_position_' # children_count_position_
        => \/ children_count_position_' = 0
           \/ hist'.op = "GetChildAndIncrementCounter"]_vars

\* C25 witness: an enumeration of two children has returned both and the
\* next call has returned null.
CursorAtEnd ==
  /\ hist.op = "GetChildAndIncrementCounter"
  /\ hist.id = 0
  /\ Len(children_) = 2
  /\ children_count_position_ = 2

\* C26 (SpecStore): store_state_ is Pending from a mutation until the next
\* Serialise, so a mutation that no Serialise output contains is never left
\* in state Complete: only a step that runs Serialise takes store_state_ out
\* of Pending; the AddNewVersion that ends an earlier attempt does not.
PendingLeftOnlyBySerialise ==
  [][(store_state_ = "Pending" /\ store_state_' # "Pending")
       => hist'.op = "Serialise"]_vars

\* C27 (SpecStore): at most one store handler that will be called without
\* error is outstanding for the Directory: the armed wait, the expired waits
\* whose handler has not run and the posted functors together.
OneStoreOutstanding == timer_ + store_queue.ok <= 1

\* C28 (SpecFile): the record that Serialise writes for a child that holds
\* an encryptor shows the data map as it is after the flush of that child:
\* what the step wrote equals what the flushed children would give.
SerialisedAfterFlush ==
  [][hist'.op = "Serialise"
       => \A i \in 1..Len(children_) :
            fc[children_[i]].self_encryptor # 0
            => SerialisedDataMaps[i] = SerialisedDataMap(fc'[children_[i]])]_vars

\* C29 (SpecRemove): no teardown handler reads a FileContext that RemoveChild
\* or the destruction of the Directory has destroyed.
NoTeardownOfDestroyedFile == ub # "dangling_file_context"

\* C30 (SpecStoreLive): whenever store_state_ is Pending, a store handler
\* that is not aborted eventually runs (the functor calls put_functor, which
\* begins with Serialise), whatever calls of StoreImmediatelyIfPending are
\* made in between.
PendingStoreEventuallyRuns ==
  (store_state_ = "Pending") ~> (hist.op = "Serialise")

\* C30 witness: the store has run after the last child was added, and no
\* store handler is left.
StoreRanAfterLastMutation ==
  /\ hist.op = "Serialise"
  /\ Len(children_) = MaxFiles
  /\ Len(hist.ret.children) = MaxFiles
  /\ timer_ = 0
  /\ store_queue.ok = 0

====
